---- MODULE Spec2Model ----
(***************************************************************************)
(* Connect 4 (src/src/Connect4.tsx): the game state held by the Connect4   *)
(* component, its event handlers (dropPiece, resetGame, setGameMode,       *)
(* toggleMute), the timers they schedule, the bot-move effect, and the     *)
(* pure helpers (getLowestEmptyRow, checkWinner, checkWinnerStatic,        *)
(* getBotMove).                                                            *)
(*                                                                         *)
(* One step of the model is one event-loop task: a click handler or a      *)
(* timer callback, together with the re-render and the effect run that     *)
(* React performs for the state it set.  Handlers read the state of the    *)
(* latest render.                                                          *)
(***************************************************************************)
EXTENDS Integers, Sequences, FiniteSets, TLC

\* ------------------------------------------------------------------ bounds
\* The human clicks columns 0..MaxCol only.
MaxCol == 1
\* The human stops clicking once the board holds MaxTokens tokens.
MaxTokens == 7
\* At most MaxRaces times in a run does the user act into a pending drop: a
\* click that dropPiece accepts, or a mute toggle that re-arms the bot timer,
\* while a 600 ms timer is waiting to fire.
MaxRaces == 1
\* ... and again for the last MaxEndgame cells of a board that is filling up.
MaxEndgame == 4
\* Boards handed to the pure functions: a start position and at most
\* MaxFnTokens more tokens ...
MaxFnTokens == 4
\* ... dropped in columns 0..MaxFnCol.
MaxFnCol == 3

\* --------------------------------------------------------------- constants
ROWS == 6
COLS == 7

Red == "red"
Yellow == "yellow"
\* null as a cell, a player or a winner
Null == "null"
\* null as a winningLine (a line returned by checkWinner is never empty)
NoLine == << >>
\* null as animatingPiece
NoPiece == [row |-> 0 - 1, col |-> 0 - 1]
\* validCols[0] of an empty validCols: undefined
UndefinedCol == 0 - 1

RowIdx == 0 .. (ROWS - 1)
ColIdx == 0 .. (COLS - 1)
Players == {Red, Yellow}
GameModes == {"two-player", "single-player"}

initializeBoard == [r \in RowIdx |-> [c \in ColIdx |-> Null]]

\* board.every(r => r.every(c => c !== null))
boardFull(board) == \A r \in RowIdx : \A c \in ColIdx : board[r][c] # Null

InRange(r, c) == r >= 0 /\ r < ROWS /\ c >= 0 /\ c < COLS

\* ----------------------------------------------------------- pure helpers
RECURSIVE ScanUp(_, _, _)
ScanUp(board, col, row) ==
    IF row < 0 THEN 0 - 1
    ELSE IF board[row][col] = Null THEN row
    ELSE ScanUp(board, col, row - 1)

\* A scan from the top row down: the first empty row met is the topmost one.
getLowestEmptyRow_TopDown(board, col) ==
    IF col \notin ColIdx THEN 0 - 1
    ELSE IF \E r \in RowIdx : board[r][col] = Null
         THEN CHOOSE r \in RowIdx :
                  /\ board[r][col] = Null
                  /\ \A q \in RowIdx : board[q][col] = Null => r <= q
         ELSE 0 - 1

\* for (row = ROWS-1; row >= 0; row--) if (board[row][col] === null) return row;
\* return -1.  With col outside 0..6 board[row][col] is undefined, never null.
getLowestEmptyRow(board, col) ==
    IF col \notin ColIdx THEN 0 - 1 ELSE ScanUp(board, col, ROWS - 1)

\* The axes with the diagonals first.
directions_DiagonalsFirst ==
    << << <<1, 1>>, <<0 - 1, 0 - 1>> >>,
       << <<1, 0 - 1>>, <<0 - 1, 1>> >>,
       << <<0, 1>>, <<0, 0 - 1>> >>,
       << <<1, 0>>, <<0 - 1, 0>> >> >>

directions ==
    << << <<0, 1>>, <<0, 0 - 1>> >>,
       << <<1, 0>>, <<0 - 1, 0>> >>,
       << <<1, 1>>, <<0 - 1, 0 - 1>> >>,
       << <<1, 0 - 1>>, <<0 - 1, 1>> >> >>

\* The while loop of checkWinner: the cells met from (r, c) in steps of
\* (dr, dc) while they are on the board and hold player.
RECURSIVE Walk(_, _, _, _, _, _)
Walk(board, r, c, dr, dc, player) ==
    IF InRange(r, c) /\ board[r][c] = player
    THEN << <<r, c>> >> \o Walk(board, r + dr, c + dc, dr, dc, player)
    ELSE << >>

\* A candidate line that lists the cell after its extensions.
AxisLine_CellLast(board, row, col, direction) ==
    Walk(board, row + direction[1][1], col + direction[1][2],
         direction[1][1], direction[1][2], board[row][col])
      \o Walk(board, row + direction[2][1], col + direction[2][2],
              direction[2][1], direction[2][2], board[row][col])
      \o << <<row, col>> >>

\* The candidate line of one axis: the cell, then both extensions.
AxisLine(board, row, col, direction) ==
    << <<row, col>> >>
      \o Walk(board, row + direction[1][1], col + direction[1][2],
              direction[1][1], direction[1][2], board[row][col])
      \o Walk(board, row + direction[2][1], col + direction[2][2],
              direction[2][1], direction[2][2], board[row][col])

RECURSIVE FirstLine(_, _, _, _)
FirstLine(board, row, col, i) ==
    IF i > Len(directions) THEN NoLine
    ELSE IF Len(AxisLine(board, row, col, directions[i])) >= 4
         THEN AxisLine(board, row, col, directions[i])
         ELSE FirstLine(board, row, col, i + 1)

\* A win test that needs five in a row.
checkWinner_Five(board, row, col) ==
    IF board[row][col] = Null THEN NoLine
    ELSE IF \E i \in 1 .. Len(directions) :
                Len(AxisLine(board, row, col, directions[i])) >= 5
         THEN FirstLine(board, row, col, 1)
         ELSE NoLine

checkWinner(board, row, col) ==
    IF board[row][col] = Null THEN NoLine ELSE FirstLine(board, row, col, 1)

\* The directions table of checkWinnerStatic, its own copy.
staticDirections ==
    << << <<0, 1>>, <<0, 0 - 1>> >>,
       << <<1, 0>>, <<0 - 1, 0>> >>,
       << <<1, 1>>, <<0 - 1, 0 - 1>> >>,
       << <<1, 0 - 1>>, <<0 - 1, 1>> >> >>

\* The while loop of checkWinnerStatic: the count++ it performs from (r, c) in
\* steps of (dr, dc) while the cells are on the board and hold player.
RECURSIVE CountWalk(_, _, _, _, _, _)
CountWalk(board, r, c, dr, dc, player) ==
    IF InRange(r, c) /\ board[r][c] = player
    THEN 1 + CountWalk(board, r + dr, c + dc, dr, dc, player)
    ELSE 0

\* count of one axis: 1 for the cell, then both extensions.
AxisCount(board, row, col, direction) ==
    1 + CountWalk(board, row + direction[1][1], col + direction[1][2],
                  direction[1][1], direction[1][2], board[row][col])
      + CountWalk(board, row + direction[2][1], col + direction[2][2],
                  direction[2][1], direction[2][2], board[row][col])

\* A count that follows the first direction of each axis only.
checkWinnerStatic_OneWay(board, row, col) ==
    IF board[row][col] = Null THEN FALSE
    ELSE \E i \in 1 .. Len(staticDirections) :
             1 + CountWalk(board, row + staticDirections[i][1][1],
                           col + staticDirections[i][1][2],
                           staticDirections[i][1][1], staticDirections[i][1][2],
                           board[row][col]) >= 4

\* if (!player) return false; true at the first axis whose count is >= 4.
checkWinnerStatic(board, row, col) ==
    IF board[row][col] = Null THEN FALSE
    ELSE \E i \in 1 .. Len(staticDirections) :
             AxisCount(board, row, col, staticDirections[i]) >= 4

\* testBoard = copy of board; testBoard[row][col] = player
Place(board, row, col, player) ==
    [board EXCEPT ![row] = [board[row] EXCEPT ![col] = player]]

\* One iteration of the win / block loops of getBotMove.
WinsAt(board, col, player) ==
    /\ getLowestEmptyRow(board, col) # 0 - 1
    /\ checkWinnerStatic(Place(board, getLowestEmptyRow(board, col), col, player),
                         getLowestEmptyRow(board, col), col)

RECURSIVE FirstWinning(_, _, _)
FirstWinning(board, player, col) ==
    IF col >= COLS THEN 0 - 1
    ELSE IF WinsAt(board, col, player) THEN col
    ELSE FirstWinning(board, player, col + 1)

\* A preference order without the two edge columns.
centerCols_NoEdges == <<3, 2, 4, 1, 5>>

\* The preference order mirrored: right of the centre before left of it.
centerCols_Mirrored == <<3, 4, 2, 5, 1, 6, 0>>

\* A preference order from the left edge.
centerCols_Ascending == <<0, 1, 2, 3, 4, 5, 6>>

centerCols == <<3, 2, 4, 1, 5, 0, 6>>

RECURSIVE FirstCenter(_, _)
FirstCenter(board, i) ==
    IF i > Len(centerCols) THEN 0 - 1
    ELSE IF getLowestEmptyRow(board, centerCols[i]) # 0 - 1 THEN centerCols[i]
    ELSE FirstCenter(board, i + 1)

\* validCols, in ascending order
RECURSIVE validCols(_, _)
validCols(board, col) ==
    IF col >= COLS THEN << >>
    ELSE (IF getLowestEmptyRow(board, col) # 0 - 1 THEN <<col>> ELSE << >>)
           \o validCols(board, col + 1)

\* validCols[Math.floor(Math.random() * validCols.length)]; rnd is the index
\* the random draw selects when validCols is not empty.
RandomFallback(board, rnd) ==
    IF Len(validCols(board, 0)) = 0 THEN UndefinedCol
    ELSE validCols(board, 0)[(rnd % Len(validCols(board, 0))) + 1]

opponentOf(player) == IF player = Red THEN Yellow ELSE Red

\* The block tier tried before the win tier.
getBotMove_BlockFirst(board, botPlayer, rnd) ==
    IF FirstWinning(board, opponentOf(botPlayer), 0) # 0 - 1
    THEN FirstWinning(board, opponentOf(botPlayer), 0)
    ELSE IF FirstWinning(board, botPlayer, 0) # 0 - 1
    THEN FirstWinning(board, botPlayer, 0)
    ELSE IF FirstCenter(board, 1) # 0 - 1 THEN FirstCenter(board, 1)
    ELSE RandomFallback(board, rnd)

\* The block tier left out.
getBotMove_NoBlock(board, botPlayer, rnd) ==
    IF FirstWinning(board, botPlayer, 0) # 0 - 1
    THEN FirstWinning(board, botPlayer, 0)
    ELSE IF FirstCenter(board, 1) # 0 - 1 THEN FirstCenter(board, 1)
    ELSE RandomFallback(board, rnd)

getBotMove(board, botPlayer, rnd) ==
    IF FirstWinning(board, botPlayer, 0) # 0 - 1
    THEN FirstWinning(board, botPlayer, 0)
    ELSE IF FirstWinning(board, opponentOf(botPlayer), 0) # 0 - 1
    THEN FirstWinning(board, opponentOf(botPlayer), 0)
    ELSE IF FirstCenter(board, 1) # 0 - 1 THEN FirstCenter(board, 1)
    ELSE RandomFallback(board, rnd)

\* getBotMove by reference.  The objects it works on: auth is the board
\* passed in, test the array that board.map(row => [...row]) creates.

\* A loop body that simulates on the board passed in: testBoard = board.
testBoard_Alias == "auth"

\* const testBoard = board.map(row => [...row]): a reference to a new object.
testBoard == "test"

\* The win and block loops of getBotMove from column col on, as they act on
\* the objects: each iteration copies auth, writes player's token through
\* the reference testBoard and tests it; the result holds the objects as the
\* loop leaves them.
RECURSIVE SimulateLoop(_, _, _)
SimulateLoop(heap, player, col) ==
    IF col >= COLS THEN [found |-> FALSE, heap |-> heap]
    ELSE LET copied == [heap EXCEPT !.test = heap.auth]
             row == getLowestEmptyRow(copied[testBoard], col)
             written == [copied EXCEPT
                            ![testBoard] = Place(copied[testBoard], row, col, player)]
         IN  IF row = 0 - 1 THEN SimulateLoop(copied, player, col + 1)
             ELSE IF checkWinnerStatic(written[testBoard], row, col)
                  THEN [found |-> TRUE, heap |-> written]
                  ELSE SimulateLoop(written, player, col + 1)

\* The board passed to getBotMove as the call leaves it; the centre loop and
\* the fallback write nothing.
getBotMoveBoard(board, botPlayer) ==
    LET win == SimulateLoop([auth |-> board, test |-> board], botPlayer, 0)
    IN  IF win.found THEN win.heap.auth
        ELSE SimulateLoop(win.heap, opponentOf(botPlayer), 0).heap.auth

\* The tier of getBotMove that returns: the win loop, the block loop, the
\* centre loop, or the random fallback after them.
getBotMoveTier(board, botPlayer) ==
    IF FirstWinning(board, botPlayer, 0) # 0 - 1 THEN "win"
    ELSE IF FirstWinning(board, opponentOf(botPlayer), 0) # 0 - 1 THEN "block"
    ELSE IF FirstCenter(board, 1) # 0 - 1 THEN "center"
    ELSE "random"

\* ------------------------------------------------------------------- state
VARIABLES
    gameState,   \* the GameState record of useState
    dropTimers,  \* the pending 600 ms timers, oldest first
    botTimer,    \* the pending 500 ms timer of the bot-move effect
    lastOp,      \* "resetGame" or "setGameMode" right after that handler ran, else "play"
    races,       \* the user actions so far that raced a pending drop timer
    fnBoard,     \* a board handed to the pure functions
    fnPlaced,    \* the tokens dropped on fnBoard since its start position
    fnOut        \* what the pure functions returned for fnBoard

vars == <<gameState, dropTimers, botTimer, lastOp, races, fnBoard, fnPlaced, fnOut>>

Cells == RowIdx \X ColIdx

CountTokens(board) == Cardinality({rc \in Cells : board[rc[1]][rc[2]] # Null})

\* useState's initial value
InitialGameState ==
    [board |-> initializeBoard,
     currentPlayer |-> Red,
     winner |-> Null,
     winningLine |-> NoLine,
     gameMode |-> "two-player",
     isBotThinking |-> FALSE,
     animatingPiece |-> NoPiece]

NoTimer == [pending |-> FALSE, board |-> initializeBoard]

\* The closure of the setTimeout callback of dropPiece: newBoard, row, col and
\* gameState.currentPlayer as they were at the call.  stale records that a
\* resetGame or setGameMode ran after the timer was scheduled.
HumanDrop(board, row, col, player) ==
    [kind |-> "human", newBoard |-> board, row |-> row, col |-> col,
     player |-> player, stale |-> FALSE]

\* The closure of the inner setTimeout callback of the bot effect: botMove.
BotDrop(botMove) ==
    [kind |-> "bot", newBoard |-> initializeBoard, row |-> 0 - 1, col |-> botMove,
     player |-> Yellow, stale |-> FALSE]

NoOut ==
    [done |-> FALSE,
     lines |-> [rc \in Cells |-> NoLine],
     static |-> [rc \in Cells |-> FALSE],
     move |-> 0 - 1,
     tier |-> "none",
     board |-> initializeBoard]

\* The bot-move effect after a render of gs.  When one of its dependencies
\* (isBotThinking, board, getBotMove, checkWinner, playDropSound) changed, the
\* clean-up clears the 500 ms timer and the effect runs again: it returns
\* early unless isBotThinking && !winner, else schedules the timer with the
\* board of that render.
BotEffect(gs, depsChanged) ==
    IF ~depsChanged THEN botTimer
    ELSE IF gs.isBotThinking /\ gs.winner = Null
         THEN [pending |-> TRUE, board |-> gs.board]
         ELSE NoTimer

isDraw == gameState.winner = Null /\ boardFull(gameState.board)

\* A status line without the draw branch.
Status_NoDraw ==
    IF gameState.winner # Null THEN "wins"
    ELSE IF gameState.isBotThinking THEN "thinking"
    ELSE "to move"

\* The status line of the render.
Status ==
    IF gameState.winner # Null THEN "wins"
    ELSE IF isDraw THEN "draw"
    ELSE IF gameState.isBotThinking THEN "thinking"
    ELSE "to move"

Init ==
    /\ gameState = InitialGameState
    /\ dropTimers = << >>
    /\ botTimer = NoTimer
    /\ lastOp = "play"
    /\ races = 0
    /\ fnBoard = initializeBoard
    /\ fnPlaced = 0
    /\ fnOut = NoOut

\* ----------------------------------------------------------------- actions
MarkStale(timers) == [i \in 1 .. Len(timers) |-> [timers[i] EXCEPT !.stale = TRUE]]

\* Early returns without the test of row === -1.
DropRejected_NoRowTest(col) ==
    \/ gameState.winner # Null
    \/ gameState.isBotThinking
    \/ gameState.animatingPiece # NoPiece

\* The early returns of dropPiece.
DropRejected(col) ==
    \/ gameState.winner # Null
    \/ gameState.isBotThinking
    \/ gameState.animatingPiece # NoPiece
    \/ getLowestEmptyRow(gameState.board, col) = 0 - 1

\* The clicks the model makes: see the bounds.
ClickInBounds(col) ==
    /\ \/ col \in 0 .. MaxCol /\ CountTokens(gameState.board) < MaxTokens
       \/ CountTokens(gameState.board) >= ROWS * COLS - MaxEndgame
    /\ dropTimers = << >> \/ races < MaxRaces

\* dropPiece(col): the click handler of a cell of column col.
dropPiece(col) ==
    \/ /\ DropRejected(col)
       /\ lastOp' = "play"
       /\ UNCHANGED <<gameState, dropTimers, botTimer, races, fnBoard, fnPlaced, fnOut>>
    \/ /\ ~DropRejected(col)
       /\ gameState' = [gameState EXCEPT !.animatingPiece =
              [row |-> getLowestEmptyRow(gameState.board, col), col |-> col]]
       /\ dropTimers' = Append(dropTimers,
              HumanDrop(gameState.board, getLowestEmptyRow(gameState.board, col),
                        col, gameState.currentPlayer))
       /\ botTimer' = BotEffect(gameState', FALSE)
       /\ lastOp' = "play"
       /\ races' = IF dropTimers = << >> THEN races ELSE races + 1
       /\ UNCHANGED <<fnBoard, fnPlaced, fnOut>>

\* A commit that adds the token to the board it finds, prev.board, at the row
\* computed when the drop started.
DropCommitState_OntoPrev(prev, t) ==
    LET newBoard == Place(prev.board, t.row, t.col, t.player)
        winningLine == checkWinner(newBoard, t.row, t.col)
        nextPlayer == IF t.player = Red THEN Yellow ELSE Red
        isGameOver == winningLine # NoLine \/ boardFull(newBoard)
    IN  [prev EXCEPT
            !.board = newBoard,
            !.currentPlayer = nextPlayer,
            !.winner = IF winningLine # NoLine THEN t.player ELSE Null,
            !.winningLine = winningLine,
            !.animatingPiece = NoPiece,
            !.isBotThinking = prev.gameMode = "single-player" /\ ~isGameOver
                                /\ nextPlayer = Yellow]

\* The state the setTimeout callback of dropPiece sets, from its closure t and
\* the state prev it is applied to.
DropCommitState(prev, t) ==
    LET newBoard == Place(t.newBoard, t.row, t.col, t.player)
        winningLine == checkWinner(newBoard, t.row, t.col)
        nextPlayer == IF t.player = Red THEN Yellow ELSE Red
        isGameOver == winningLine # NoLine \/ boardFull(newBoard)
    IN  [prev EXCEPT
            !.board = newBoard,
            !.currentPlayer = nextPlayer,
            !.winner = IF winningLine # NoLine THEN t.player ELSE Null,
            !.winningLine = winningLine,
            !.animatingPiece = NoPiece,
            !.isBotThinking = prev.gameMode = "single-player" /\ ~isGameOver
                                /\ nextPlayer = Yellow]

\* The 600 ms timer of dropPiece fires.
DropCommit ==
    /\ dropTimers # << >>
    /\ Head(dropTimers).kind = "human"
    /\ gameState' = DropCommitState(gameState, Head(dropTimers))
    /\ dropTimers' = Tail(dropTimers)
    /\ botTimer' = BotEffect(gameState', TRUE)
    /\ lastOp' = "play"
    /\ UNCHANGED <<races, fnBoard, fnPlaced, fnOut>>

\* The draws of Math.random() that select different entries of validCols;
\* Math.random() is called in the fallback branch only.
RandomDraws(board) ==
    IF FirstCenter(board, 1) # 0 - 1 \/ Len(validCols(board, 0)) = 0 THEN {0}
    ELSE 0 .. (Len(validCols(board, 0)) - 1)

\* The 500 ms timer of the bot effect fires: the bot picks its column on the
\* board of the render that scheduled it.
BotThink ==
    /\ botTimer.pending
    /\ \E rnd \in RandomDraws(botTimer.board) :
         LET botMove == getBotMove(botTimer.board, Yellow, rnd)
             row == getLowestEmptyRow(botTimer.board, botMove)
         IN  IF row = 0 - 1
             THEN UNCHANGED <<gameState, dropTimers>>
             ELSE /\ gameState' = [gameState EXCEPT !.animatingPiece =
                         [row |-> row, col |-> botMove]]
                  /\ dropTimers' = Append(dropTimers, BotDrop(botMove))
    /\ botTimer' = NoTimer
    /\ lastOp' = "play"
    /\ UNCHANGED <<races, fnBoard, fnPlaced, fnOut>>

\* The state the inner setTimeout callback of the bot effect sets.
BotCommitState(prev, botMove) ==
    LET targetRow == getLowestEmptyRow(prev.board, botMove)
        newBoard == Place(prev.board, targetRow, botMove, Yellow)
        winningLine == checkWinner(newBoard, targetRow, botMove)
    IN  IF targetRow = 0 - 1 THEN prev
        ELSE [prev EXCEPT
                !.board = newBoard,
                !.currentPlayer = Red,
                !.winner = IF winningLine # NoLine THEN Yellow ELSE Null,
                !.winningLine = winningLine,
                !.isBotThinking = FALSE,
                !.animatingPiece = NoPiece]

\* The 600 ms timer of the bot effect fires.
BotCommit ==
    /\ dropTimers # << >>
    /\ Head(dropTimers).kind = "bot"
    /\ gameState' = BotCommitState(gameState, Head(dropTimers).col)
    /\ dropTimers' = Tail(dropTimers)
    /\ botTimer' = BotEffect(gameState', gameState' # gameState)
    /\ lastOp' = "play"
    /\ UNCHANGED <<races, fnBoard, fnPlaced, fnOut>>

\* A reset that clears the winner and leaves the winning line.
ResetState_KeepsLine(prev) ==
    [prev EXCEPT
        !.board = initializeBoard,
        !.currentPlayer = Red,
        !.winner = Null,
        !.isBotThinking = FALSE,
        !.animatingPiece = NoPiece]

\* A reset that leaves the animation and the bot flag as they are.
ResetState_KeepsFlags(prev) ==
    [prev EXCEPT
        !.board = initializeBoard,
        !.currentPlayer = Red,
        !.winner = Null,
        !.winningLine = NoLine]

ResetState(prev) ==
    [prev EXCEPT
        !.board = initializeBoard,
        !.currentPlayer = Red,
        !.winner = Null,
        !.winningLine = NoLine,
        !.isBotThinking = FALSE,
        !.animatingPiece = NoPiece]

\* resetGame: the click handler of NEW GAME.
resetGame ==
    /\ gameState' = ResetState(gameState)
    /\ dropTimers' = MarkStale(dropTimers)
    /\ botTimer' = BotEffect(gameState', TRUE)
    /\ lastOp' = "resetGame"
    /\ UNCHANGED <<races, fnBoard, fnPlaced, fnOut>>

\* A mode switch that keeps the game: { ...prev, gameMode: mode }.
setGameMode_KeepsGame(mode) ==
    /\ gameState' = [gameState EXCEPT !.gameMode = mode]
    /\ dropTimers' = MarkStale(dropTimers)
    /\ botTimer' = BotEffect(gameState', TRUE)
    /\ lastOp' = "setGameMode"
    /\ UNCHANGED <<races, fnBoard, fnPlaced, fnOut>>

\* setGameMode(mode): the click handler of the two mode buttons.
setGameMode(mode) ==
    /\ gameState' =
           [board |-> initializeBoard,
            currentPlayer |-> Red,
            winner |-> Null,
            winningLine |-> NoLine,
            gameMode |-> mode,
            isBotThinking |-> FALSE,
            animatingPiece |-> NoPiece]
    /\ dropTimers' = MarkStale(dropTimers)
    /\ botTimer' = BotEffect(gameState', TRUE)
    /\ lastOp' = "setGameMode"
    /\ UNCHANGED <<races, fnBoard, fnPlaced, fnOut>>

\* toggleMute: isMuted flips (its value reaches the audio element only) and
\* playDropSound is re-created, a dependency of the bot effect.
toggleMute ==
    /\ botTimer' = BotEffect(gameState, TRUE)
    /\ races' = IF dropTimers # << >> /\ botTimer'.pending THEN races + 1 ELSE races
    /\ races' <= MaxRaces
    /\ lastOp' = "play"
    /\ UNCHANGED <<gameState, dropTimers, fnBoard, fnPlaced, fnOut>>

\* The columns dropPiece is called with: those of the board and one to either
\* side of it.
ClickCols == (0 - 1) .. COLS

Next ==
    \/ \E col \in ClickCols : (DropRejected(col) \/ ClickInBounds(col)) /\ dropPiece(col)
    \/ DropCommit
    \/ BotThink
    \/ BotCommit
    \/ resetGame
    \/ \E mode \in GameModes : setGameMode(mode)
    \/ toggleMute

Spec == Init /\ [][Next]_vars

\* ------------------------------------------------- a game that fills the board
\* The columns of a two-player game of 42 drops in which nobody gets four in
\* a row: columns 0, 1, 4, 5 alternate red, yellow, ... from the bottom and
\* columns 2, 3, 6 yellow, red, ...
DrawGame ==
    <<0, 2, 2, 2, 2, 2, 2, 0, 0, 0, 0, 0,
      1, 3, 3, 3, 3, 3, 3, 1, 1, 1, 1, 1,
      5, 5, 5, 5, 5, 5,
      4, 6, 6, 6, 6, 4, 4, 4,
      4, 6, 6, 4>>

\* The state after the clicks moves[i .. n], each left to commit before the
\* next: dropPiece and its timer.
RECURSIVE PlayOut(_, _, _, _)
PlayOut(gs, moves, i, n) ==
    IF i > n \/ gs.winner # Null \/ getLowestEmptyRow(gs.board, moves[i]) = 0 - 1
    THEN gs
    ELSE PlayOut(DropCommitState(gs,
                     HumanDrop(gs.board, getLowestEmptyRow(gs.board, moves[i]),
                               moves[i], gs.currentPlayer)),
                 moves, i + 1, n)

\* The two-player game DrawGame with its last MaxEndgame drops still to come.
DrawInit ==
    /\ gameState = PlayOut(InitialGameState, DrawGame, 1, Len(DrawGame) - MaxEndgame)
    /\ dropTimers = << >>
    /\ botTimer = NoTimer
    /\ lastOp = "play"
    /\ races = 0
    /\ fnBoard = initializeBoard
    /\ fnPlaced = 0
    /\ fnOut = NoOut

SpecDraw == DrawInit /\ [][Next]_vars

\* ------------------------------------------------- the column-3 scenarios
\* A two-player game that leaves red at (5,0), (5,1), (5,2) with yellow's
\* tokens on top of them and red to move.
RowGame == <<0, 0, 1, 1, 2, 2>>

Col3Init ==
    /\ gameState = PlayOut(InitialGameState, RowGame, 1, Len(RowGame))
    /\ dropTimers = << >>
    /\ botTimer = NoTimer
    /\ lastOp = "play"
    /\ races = 0
    /\ fnBoard = initializeBoard
    /\ fnPlaced = 0
    /\ fnOut = NoOut

\* The human clicks column 3 only.
Col3Click(col) == col = 3 /\ (dropTimers = << >> \/ races < MaxRaces)

Col3Next ==
    \/ \E col \in ClickCols : (DropRejected(col) \/ Col3Click(col)) /\ dropPiece(col)
    \/ DropCommit
    \/ BotThink
    \/ BotCommit
    \/ resetGame
    \/ \E mode \in GameModes : setGameMode(mode)
    \/ toggleMute

SpecCol3 == Col3Init /\ [][Col3Next]_vars

\* ------------------------------------------- a single-player game, undisturbed
\* Right after setGameMode('single-player').
SingleInit ==
    /\ gameState = [InitialGameState EXCEPT !.gameMode = "single-player"]
    /\ dropTimers = << >>
    /\ botTimer = NoTimer
    /\ lastOp = "setGameMode"
    /\ races = 0
    /\ fnBoard = initializeBoard
    /\ fnPlaced = 0
    /\ fnOut = NoOut

\* The human clicks any column until the board holds MaxTokens tokens.
SingleClick(col) == col \in ColIdx /\ CountTokens(gameState.board) < MaxTokens

\* The human plays and the bot replies; nobody touches the other buttons.
SingleNext ==
    \/ \E col \in ClickCols : (DropRejected(col) \/ SingleClick(col)) /\ dropPiece(col)
    \/ DropCommit
    \/ BotThink
    \/ BotCommit

SpecSingle == SingleInit /\ [][SingleNext]_vars

\* ------------------------------------------------------ the pure functions
\* Two short two-player games that leave a staircase of tokens, so that the
\* cells of a diagonal can be filled next, and one that leaves each player
\* three tokens stacked in a column.
StairUpGame == <<3, 2, 1, 3, 2, 3>>
StairDownGame == <<0, 1, 2, 0, 1, 0>>
ThreatGame == <<0, 1, 0, 1, 0, 1>>
\* A two-player game that fills column 3 and leaves one cell of column 2.
CenterGame == <<3, 3, 3, 3, 3, 3, 2, 2, 2, 2, 2>>
\* A two-player game that fills columns 1 to 3 and leaves red three tokens
\* from (5,1) to the right and three from (4,1) up the diagonal.
CrossGame == <<1, 4, 1, 4, 1, 1, 1, 1, 2, 2, 2, 4, 3, 3, 2, 3, 3, 2, 3, 3, 2>>
\* A two-player game with the columns of DrawGame that fills columns 1 to 6
\* and leaves five cells of column 0.
EdgeGame ==
    <<1, 3, 3, 3, 3, 3, 3, 1, 1, 1, 1, 1,
      5, 5, 5, 5, 5, 5,
      4, 2, 2, 2, 2, 2, 2, 4, 4, 4, 4, 4,
      0, 6, 6, 6, 6, 6, 6>>

FnStartBoards ==
    {initializeBoard,
     PlayOut(InitialGameState, StairUpGame, 1, Len(StairUpGame)).board,
     PlayOut(InitialGameState, StairDownGame, 1, Len(StairDownGame)).board,
     PlayOut(InitialGameState, ThreatGame, 1, Len(ThreatGame)).board,
     PlayOut(InitialGameState, CenterGame, 1, Len(CenterGame)).board,
     PlayOut(InitialGameState, CrossGame, 1, Len(CrossGame)).board,
     PlayOut(InitialGameState, EdgeGame, 1, Len(EdgeGame)).board}

FnInit ==
    /\ gameState = InitialGameState
    /\ dropTimers = << >>
    /\ botTimer = NoTimer
    /\ lastOp = "play"
    /\ races = 0
    /\ fnBoard \in FnStartBoards
    /\ fnPlaced = 0
    /\ fnOut = NoOut

\* A token of either colour dropped on fnBoard.
FnPlace(col, player) ==
    /\ ~fnOut.done
    /\ col \in 0 .. MaxFnCol
    /\ fnPlaced < MaxFnTokens
    /\ getLowestEmptyRow(fnBoard, col) # 0 - 1
    /\ fnBoard' = Place(fnBoard, getLowestEmptyRow(fnBoard, col), col, player)
    /\ fnPlaced' = fnPlaced + 1
    /\ UNCHANGED <<gameState, dropTimers, botTimer, lastOp, races, fnOut>>

\* checkWinner and checkWinnerStatic at every cell of fnBoard, and getBotMove
\* for the bot playing yellow: the column, the tier it comes from and the
\* board as the call leaves it.
FnEvaluate ==
    /\ ~fnOut.done
    /\ \E rnd \in RandomDraws(fnBoard) :
         fnOut' = [done |-> TRUE,
                   lines |-> [rc \in Cells |-> checkWinner(fnBoard, rc[1], rc[2])],
                   static |-> [rc \in Cells |-> checkWinnerStatic(fnBoard, rc[1], rc[2])],
                   move |-> getBotMove(fnBoard, Yellow, rnd),
                   tier |-> getBotMoveTier(fnBoard, Yellow),
                   board |-> getBotMoveBoard(fnBoard, Yellow)]
    /\ UNCHANGED <<gameState, dropTimers, botTimer, lastOp, races, fnBoard, fnPlaced>>

FnNext ==
    \/ \E col \in ColIdx, player \in Players : FnPlace(col, player)
    \/ FnEvaluate

SpecFn == FnInit /\ [][FnNext]_vars

\* ------------------------------------------------------------ the claims
AllEmpty(board) == \A rc \in Cells : board[rc[1]][rc[2]] = Null

\* A 600 ms timer fires in this step.
TimerFires == dropTimers # << >> /\ dropTimers' = Tail(dropTimers)

\* A call of dropPiece is accepted in this step.
DropAccepted ==
    /\ Len(dropTimers') = Len(dropTimers) + 1
    /\ dropTimers'[Len(dropTimers')].kind = "human"

\* The game is over: somebody won or the board is full.
Finished == gameState.winner # Null \/ CountTokens(gameState.board) = ROWS * COLS

\* C1: right after resetGame every cell is empty, red is to move, winner and
\* winningLine are null, isBotThinking is false, animatingPiece is null and
\* gameMode is what it was before the reset.
C1_ResetPost ==
    [][lastOp' = "resetGame" =>
          /\ AllEmpty(gameState'.board)
          /\ gameState'.currentPlayer = Red
          /\ gameState'.winner = Null
          /\ gameState'.winningLine = NoLine
          /\ gameState'.isBotThinking = FALSE
          /\ gameState'.animatingPiece = NoPiece
          /\ gameState'.gameMode = gameState.gameMode]_vars

\* resetGame has run in single-player mode while the bot's token was dropping.
C1_Witness ==
    /\ lastOp = "resetGame"
    /\ gameState.gameMode = "single-player"
    /\ dropTimers # << >>
    /\ Head(dropTimers).kind = "bot"
    /\ Head(dropTimers).stale
    /\ AllEmpty(gameState.board)
    /\ gameState.animatingPiece = NoPiece

\* C2: a drop timer scheduled before a resetGame or setGameMode changes nothing
\* of the game state when it fires after that reset.
C2_StaleCommitIsNoOp ==
    [][(TimerFires /\ Head(dropTimers).stale) => gameState' = gameState]_vars

\* C3: once the game is finished, the board, the winner and the winning line
\* change only through resetGame or setGameMode.
C3_FinishedIsTerminal ==
    [][(Finished /\ lastOp' = "play") =>
          /\ gameState'.board = gameState.board
          /\ gameState'.winner = gameState.winner
          /\ gameState'.winningLine = gameState.winningLine]_vars

\* C4: at most one move commit is pending in every reachable state.
C4_AtMostOnePending == Len(dropTimers) <= 1

\* C5: short of resetGame and setGameMode, no step empties or recolours an
\* occupied cell.
C5_TokensStay ==
    [][lastOp' = "play" =>
          \A rc \in Cells :
              gameState.board[rc[1]][rc[2]] # Null =>
                  gameState'.board[rc[1]][rc[2]] = gameState.board[rc[1]][rc[2]]]_vars

\* The bottommost empty row of column col: the empty cell with the highest
\* row index.
IsBottommostEmpty(board, row, col) ==
    /\ row \in RowIdx
    /\ board[row][col] = Null
    /\ \A r \in RowIdx : r > row => board[r][col] # Null

Axes == {<<0, 1>>, <<1, 0>>, <<1, 1>>, <<1, 0 - 1>>}

HasFour(board, row, col) ==
    /\ board[row][col] # Null
    /\ \E d \in Axes : \E k \in 0 .. 3 :
         \A i \in 0 .. 3 :
             /\ InRange(row + (i - k) * d[1], col + (i - k) * d[2])
             /\ board[row + (i - k) * d[1]][col + (i - k) * d[2]] = board[row][col]

\* C7: checkWinner returns a line of four or more cells exactly when the cell
\* is not empty and four or more contiguous cells of its value pass through
\* it on some axis; otherwise it returns null.
C7_CheckWinnerIffFour ==
    fnOut.done =>
        \A rc \in Cells :
            /\ Len(fnOut.lines[rc]) >= 4 <=> HasFour(fnBoard, rc[1], rc[2])
            /\ ~HasFour(fnBoard, rc[1], rc[2]) => fnOut.lines[rc] = NoLine

\* checkWinner has returned a diagonal line, and null for an empty cell and
\* for a token that is part of no line.
C7_Witness ==
    /\ fnOut.done
    /\ \E rc \in Cells :
         /\ Len(fnOut.lines[rc]) >= 4
         /\ fnOut.lines[rc][2][1] # rc[1]
         /\ fnOut.lines[rc][2][2] # rc[2]
    /\ \E rc \in Cells : fnBoard[rc[1]][rc[2]] # Null /\ fnOut.lines[rc] = NoLine
    /\ \E rc \in Cells : fnBoard[rc[1]][rc[2]] = Null /\ fnOut.lines[rc] = NoLine

\* C8: a full board without a winner is a draw: isDraw holds, the status line
\* says so, nobody is to move and no drop is accepted.
C8_FullBoardIsDraw ==
    (CountTokens(gameState.board) = ROWS * COLS /\ gameState.winner = Null) =>
        /\ isDraw
        /\ Status = "draw"
        /\ ~gameState.isBotThinking
        /\ ~botTimer.pending
        /\ \A col \in ColIdx : DropRejected(col)

\* The board is full and nobody has won.
C8_Witness ==
    /\ CountTokens(gameState.board) = ROWS * COLS
    /\ gameState.winner = Null
    /\ dropTimers = << >>

\* Dropping player's token in column col completes four in a row.
Completes(board, col, player) ==
    \E row \in RowIdx :
        /\ IsBottommostEmpty(board, row, col)
        /\ HasFour(Place(board, row, col, player), row, col)

\* C9: when some column wins for the bot, getBotMove returns the leftmost such
\* column, also when the opponent has a winning column to block.
C9_BotTakesWin ==
    (fnOut.done /\ \E k \in ColIdx : Completes(fnBoard, k, Yellow)) =>
        /\ Completes(fnBoard, fnOut.move, Yellow)
        /\ \A k \in ColIdx : Completes(fnBoard, k, Yellow) => fnOut.move <= k

\* The bot had two winning columns and the opponent one further left, and
\* getBotMove returned the bot's left one.
C9_Witness ==
    /\ fnOut.done
    /\ \E k \in ColIdx : k < fnOut.move /\ Completes(fnBoard, k, Red)
    /\ \E k \in ColIdx : k > fnOut.move /\ Completes(fnBoard, k, Yellow)
    /\ Completes(fnBoard, fnOut.move, Yellow)

\* C10: when no column wins for the bot and some column wins for the
\* opponent, getBotMove returns the leftmost such column.
C10_BotBlocks ==
    (/\ fnOut.done
     /\ \A k \in ColIdx : ~Completes(fnBoard, k, Yellow)
     /\ \E k \in ColIdx : Completes(fnBoard, k, Red)) =>
        /\ Completes(fnBoard, fnOut.move, Red)
        /\ \A k \in ColIdx : Completes(fnBoard, k, Red) => fnOut.move <= k

\* The opponent had two winning columns, the bot none, the centre column was
\* free, and getBotMove returned the opponent's left one.
C10_Witness ==
    /\ fnOut.done
    /\ \A k \in ColIdx : ~Completes(fnBoard, k, Yellow)
    /\ \E k \in ColIdx : k > fnOut.move /\ Completes(fnBoard, k, Red)
    /\ Completes(fnBoard, fnOut.move, Red)
    /\ fnOut.move # 3
    /\ fnBoard[0][3] = Null

\* The 500 ms timer fired in this step and scheduled the bot's drop.
BotScheduled ==
    /\ Len(dropTimers') = Len(dropTimers) + 1
    /\ dropTimers'[Len(dropTimers')].kind = "bot"

\* The 600 ms timer of a bot drop scheduled in the current game fires in this
\* step and puts a token on the board.
BotPlaces ==
    /\ TimerFires
    /\ Head(dropTimers).kind = "bot"
    /\ ~Head(dropTimers).stale
    /\ gameState'.board # gameState.board

\* C11: in single-player mode the bot answers a committed human move with
\* exactly one yellow token: no human drop is accepted while the bot is
\* thinking, the bot schedules its drop in the column getBotMove chooses, and
\* the bot's token is placed while it is the bot's turn (yellow to move,
\* isBotThinking), in that column, after which red is to move, isBotThinking
\* is false and animatingPiece is null.
C11_BotRepliesOnce ==
    [][/\ DropAccepted => ~gameState.isBotThinking
       /\ BotScheduled =>
            \E rnd \in RandomDraws(gameState.board) :
                dropTimers'[Len(dropTimers')].col =
                    getBotMove(gameState.board, Yellow, rnd)
       /\ BotPlaces =>
            /\ gameState.gameMode = "single-player"
            /\ gameState.currentPlayer = Yellow
            /\ gameState.isBotThinking
            /\ CountTokens(gameState'.board) = CountTokens(gameState.board) + 1
            /\ \E r \in RowIdx :
                   /\ gameState.board[r][Head(dropTimers).col] = Null
                   /\ gameState'.board[r][Head(dropTimers).col] = Yellow
            /\ gameState'.currentPlayer = Red
            /\ ~gameState'.isBotThinking
            /\ gameState'.animatingPiece = NoPiece]_vars

\* A 600 ms timer fires in this step and changes the board: a token is
\* committed.
TokenCommitted == TimerFires /\ gameState'.board # gameState.board

\* C12: committed tokens alternate: the token committed is the one of the
\* player to move, red's when the board is empty, and unless it wins or fills
\* the board the other player is to move afterwards.
C12_PlayersAlternate ==
    [][TokenCommitted =>
          /\ Head(dropTimers).player = gameState.currentPlayer
          /\ AllEmpty(gameState.board) => Head(dropTimers).player = Red
          /\ (gameState'.winner = Null /\ ~boardFull(gameState'.board)) =>
                 gameState'.currentPlayer = opponentOf(Head(dropTimers).player)]_vars

\* C13: right after setGameMode(mode) every cell is empty, red is to move,
\* winner and winningLine are null, isBotThinking is false, animatingPiece is
\* null and gameMode is the requested mode.
C13_SetGameModeResets ==
    [][\A mode \in GameModes :
          setGameMode(mode) =>
              /\ AllEmpty(gameState'.board)
              /\ gameState'.currentPlayer = Red
              /\ gameState'.winner = Null
              /\ gameState'.winningLine = NoLine
              /\ gameState'.isBotThinking = FALSE
              /\ gameState'.animatingPiece = NoPiece
              /\ gameState'.gameMode = mode]_vars

\* setGameMode has switched to single-player mode while a human drop was
\* pending.
C13_Witness ==
    /\ lastOp = "setGameMode"
    /\ gameState.gameMode = "single-player"
    /\ dropTimers # << >>
    /\ Head(dropTimers).kind = "human"
    /\ Head(dropTimers).stale
    /\ AllEmpty(gameState.board)
    /\ gameState.animatingPiece = NoPiece
    /\ ~gameState.isBotThinking

\* The 600 ms timer of red's dropPiece(3) fires, called on a board of which
\* row 5 holds red at (5,0), (5,1), (5,2) and nothing else.
RowScenarioCommit ==
    /\ TimerFires
    /\ Head(dropTimers).kind = "human"
    /\ Head(dropTimers).col = 3
    /\ Head(dropTimers).player = Red
    /\ \A c \in 0 .. 2 : Head(dropTimers).newBoard[5][c] = Red
    /\ \A c \in 3 .. 6 : Head(dropTimers).newBoard[5][c] = Null

\* C14 as stated: the drop in column 3 of that board is won by red with the
\* line reported as the sequence (5,0), (5,1), (5,2), (5,3).
C14_RowLineAscending ==
    [][RowScenarioCommit =>
          /\ gameState'.winner = Red
          /\ gameState'.winningLine = << <<5, 0>>, <<5, 1>>, <<5, 2>>, <<5, 3>> >>]_vars

\* C14, amended: the drop in column 3 of that board is won by red, and the
\* line reported holds exactly the cells (5,0), (5,1), (5,2), (5,3), as the
\* sequence (5,3), (5,2), (5,1), (5,0): the placed cell, then its extension.
C14_RowLinePlacedFirst ==
    [][RowScenarioCommit =>
          /\ gameState'.winner = Red
          /\ gameState'.winningLine = << <<5, 3>>, <<5, 2>>, <<5, 1>>, <<5, 0>> >>
          /\ gameState'.board[5][3] = Red]_vars

\* Red has won with the bottom row.
C14_Witness ==
    /\ gameState.winner = Red
    /\ Len(gameState.winningLine) = 4
    /\ \A i \in 1 .. 4 : gameState.winningLine[i][1] = 5
    /\ \A c \in 0 .. 3 : gameState.board[5][c] = Red
    /\ dropTimers = << >>

CountOf(board, player) == Cardinality({rc \in Cells : board[rc[1]][rc[2]] = player})

\* The state of the column-3 scenario after its third round: single-player
\* mode, the human has dropped three tokens, all in column 3, the bot has
\* replied three times, nothing is pending and red is to move.
AfterThreeRounds ==
    /\ gameState.gameMode = "single-player"
    /\ CountOf(gameState.board, Red) = 3
    /\ CountOf(gameState.board, Yellow) = 3
    /\ \A rc \in Cells : gameState.board[rc[1]][rc[2]] = Red => rc[2] = 3
    /\ gameState.winner = Null
    /\ gameState.currentPlayer = Red
    /\ ~gameState.isBotThinking
    /\ gameState.animatingPiece = NoPiece
    /\ dropTimers = << >>
    /\ ~botTimer.pending

\* C15 as stated: after the three rounds column 3 holds red at rows 5, 4, 3
\* and nothing else, and a fourth drop in column 3 is accepted and wins for
\* red with the line (5,3), (4,3), (3,3), (2,3).
C15_ThreeStacked ==
    AfterThreeRounds =>
        /\ \A r \in RowIdx : gameState.board[r][3] = (IF r >= 3 THEN Red ELSE Null)
        /\ ~DropRejected(3)
        /\ DropCommitState(gameState, HumanDrop(gameState.board, 2, 3, Red)).winner = Red
        /\ DropCommitState(gameState, HumanDrop(gameState.board, 2, 3, Red)).winningLine
               = << <<5, 3>>, <<4, 3>>, <<3, 3>>, <<2, 3>> >>

\* C15, amended: the bot replies in column 3 each time, so after the three
\* rounds column 3 is full, red at rows 5, 3, 1 and yellow at rows 4, 2, 0,
\* nobody has won, and a fourth drop in column 3 is rejected.
C15_BotStacksOnTop ==
    AfterThreeRounds =>
        /\ \A r \in RowIdx :
               gameState.board[r][3] = (IF r \in {5, 3, 1} THEN Red ELSE Yellow)
        /\ getLowestEmptyRow(gameState.board, 3) = 0 - 1
        /\ DropRejected(3)
        /\ gameState.winner = Null

\* The third round of the scenario is over: column 3 is full.
C15_Witness ==
    /\ AfterThreeRounds
    /\ gameState.board[0][3] # Null
    /\ lastOp = "play"

\* Column col has no empty cell, or is no column of the board.
NoRoom(col) == col \notin ColIdx \/ \A r \in RowIdx : gameState.board[r][col] # Null

\* C16: a call of dropPiece on a full column or on a column index outside
\* 0..6 finds getLowestEmptyRow = -1, leaves the game state as it is and
\* schedules nothing.
C16_NoRoomRejected ==
    [][\A col \in ClickCols :
          (NoRoom(col) /\ dropPiece(col)) =>
              /\ getLowestEmptyRow(gameState.board, col) = 0 - 1
              /\ gameState' = gameState
              /\ dropTimers' = dropTimers
              /\ botTimer' = botTimer]_vars

\* A game in progress, nothing pending, red to move on a board whose column
\* 0 is full: only the test of row === -1 rejects a click on column 0.
C16_Witness ==
    /\ \A r \in RowIdx : gameState.board[r][0] # Null
    /\ gameState.winner = Null
    /\ ~gameState.isBotThinking
    /\ gameState.animatingPiece = NoPiece
    /\ dropTimers = << >>
    /\ lastOp = "play"

\* Column col of board has an empty cell.
HasRoom(board, col) == \E r \in RowIdx : board[r][col] = Null

\* col is the first column of order that has an empty cell.
FirstWithRoom(board, order, col) ==
    \E i \in 1 .. Len(order) :
        /\ order[i] = col
        /\ HasRoom(board, col)
        /\ \A j \in 1 .. (i - 1) : ~HasRoom(board, order[j])

\* C17: when no column wins for the bot and none for the opponent,
\* getBotMove returns the first column of 3, 2, 4, 1, 5, 0, 6 that has an
\* empty cell; on a board of one token that is column 3.
C17_CentrePreference ==
    fnOut.done =>
        /\ (/\ \A k \in ColIdx : ~Completes(fnBoard, k, Yellow)
            /\ \A k \in ColIdx : ~Completes(fnBoard, k, Red)
            /\ \E k \in ColIdx : HasRoom(fnBoard, k)) =>
               FirstWithRoom(fnBoard, <<3, 2, 4, 1, 5, 0, 6>>, fnOut.move)
        /\ CountTokens(fnBoard) = 1 => fnOut.move = 3

\* Columns 3 and 2 are full, nobody can win at once, and getBotMove returned
\* column 4.
C17_Witness ==
    /\ fnOut.done
    /\ ~HasRoom(fnBoard, 3)
    /\ ~HasRoom(fnBoard, 2)
    /\ \A k \in ColIdx : ~Completes(fnBoard, k, Yellow) /\ ~Completes(fnBoard, k, Red)
    /\ fnOut.move = 4

\* C18: on a board with an empty cell getBotMove returns a column of the
\* board that has an empty cell, and returns it from the win, block or centre
\* tier, never from the random fallback.
C18_FallbackUnreached ==
    (fnOut.done /\ \E k \in ColIdx : HasRoom(fnBoard, k)) =>
        /\ fnOut.move \in ColIdx
        /\ HasRoom(fnBoard, fnOut.move)
        /\ fnOut.tier \in {"win", "block", "center"}

\* Column 0 alone had room, nobody could win at once, and the centre tier
\* returned it.
C18_Witness ==
    /\ fnOut.done
    /\ \A k \in 1 .. (COLS - 1) : ~HasRoom(fnBoard, k)
    /\ HasRoom(fnBoard, 0)
    /\ fnOut.tier = "center"
    /\ fnOut.move = 0

\* The axes in the order of the claim: horizontal, vertical, diagonal
\* descending, diagonal ascending.
AxisOrder == << <<0, 1>>, <<1, 0>>, <<1, 1>>, <<1, 0 - 1>> >>

\* Four cells in a row through (row, col) on the axis d, all holding its value.
HasFourOn(board, row, col, d) ==
    /\ board[row][col] # Null
    /\ \E k \in 0 .. 3 :
         \A i \in 0 .. 3 :
             /\ InRange(row + (i - k) * d[1], col + (i - k) * d[2])
             /\ board[row + (i - k) * d[1]][col + (i - k) * d[2]] = board[row][col]

\* The cells of the unbroken run of (row, col)'s value through it on the axis d.
RunOn(board, row, col, d) ==
    {rc \in Cells :
        \E k \in (0 - ROWS) .. ROWS :
            /\ rc = <<row + k * d[1], col + k * d[2]>>
            /\ \A j \in (0 - ROWS) .. ROWS :
                   ((0 <= j /\ j <= k) \/ (k <= j /\ j <= 0)) =>
                       /\ InRange(row + j * d[1], col + j * d[2])
                       /\ board[row + j * d[1]][col + j * d[2]] = board[row][col]}

\* The axes on which four in a row pass through (row, col).
QualifyingAxes(board, row, col) ==
    {i \in 1 .. Len(AxisOrder) : HasFourOn(board, row, col, AxisOrder[i])}

\* C19: when four in a row pass through the cell on one axis or more,
\* checkWinner returns the line of the first such axis in the order
\* horizontal, vertical, diagonal descending, diagonal ascending, and only
\* that line: its cells are the cells of the run on that axis, each once.
C19_FirstAxisWins ==
    fnOut.done =>
        \A rc \in Cells :
            QualifyingAxes(fnBoard, rc[1], rc[2]) # {} =>
                LET first == CHOOSE i \in QualifyingAxes(fnBoard, rc[1], rc[2]) :
                                 \A j \in QualifyingAxes(fnBoard, rc[1], rc[2]) : i <= j
                    run == RunOn(fnBoard, rc[1], rc[2], AxisOrder[first])
                IN  /\ {fnOut.lines[rc][n] : n \in 1 .. Len(fnOut.lines[rc])} = run
                    /\ Len(fnOut.lines[rc]) = Cardinality(run)

\* Red's token at (5,0) completes the bottom row and the ascending diagonal
\* at once, and checkWinner returned the bottom row.
C19_Witness ==
    /\ fnOut.done
    /\ QualifyingAxes(fnBoard, 5, 0) = {1, 4}
    /\ fnOut.lines[<<5, 0>>] = << <<5, 0>>, <<5, 1>>, <<5, 2>>, <<5, 3>> >>

\* C20: getBotMove leaves every cell of the board passed in as it was.
C20_BoardUntouched ==
    fnOut.done => \A rc \in Cells : fnOut.board[rc[1]][rc[2]] = fnBoard[rc[1]][rc[2]]

\* getBotMove has run both simulation loops over columns with room and
\* returned from the block tier.
C20_Witness ==
    /\ fnOut.done
    /\ fnOut.tier = "block"
    /\ \E k \in ColIdx : k < fnOut.move /\ HasRoom(fnBoard, k)
    /\ fnOut.board = fnBoard

\* C21: while winner is null no four contiguous tokens of one colour are on
\* the board, on any axis.
C21_NoFourUnrecorded ==
    gameState.winner = Null =>
        \A rc \in Cells : ~HasFour(gameState.board, rc[1], rc[2])


\* C22: red's tokens on the board are as many as yellow's or one more, and red
\* is to move exactly when they are as many.
C22_TokenBalance ==
    LET reds == CountOf(gameState.board, Red)
        yellows == CountOf(gameState.board, Yellow)
    IN  /\ reds - yellows \in {0, 1}
        /\ gameState.currentPlayer = Red <=> reds = yellows


\* C23: no token floats: a cell under a token holds a token.
C23_NoFloatingToken ==
    \A rc \in Cells :
        (rc[1] < ROWS - 1 /\ gameState.board[rc[1]][rc[2]] # Null) =>
            gameState.board[rc[1] + 1][rc[2]] # Null

\* A red and a yellow token rest on other tokens.
C23_Witness ==
    /\ \E rc \in Cells : rc[1] < ROWS - 1 /\ gameState.board[rc[1]][rc[2]] = Red
    /\ \E rc \in Cells : rc[1] < ROWS - 1 /\ gameState.board[rc[1]][rc[2]] = Yellow


\* The cells of line are n different cells of the board, one step of one axis
\* apart from the first of them to the last.
IsContiguousLine(line) ==
    LET cellsOf == {line[i] : i \in DOMAIN line}
    IN  /\ Cardinality(cellsOf) = Len(line)
        /\ \A rc \in cellsOf : InRange(rc[1], rc[2])
        /\ \E d \in Axes : \E s \in cellsOf :
               cellsOf = {<<s[1] + k * d[1], s[2] + k * d[2]>> :
                              k \in 0 .. (Len(line) - 1)}

\* C24: winner is set exactly when winningLine is, and then winningLine is four
\* or more different cells of the board, contiguous on one axis, that all hold
\* the winner's token on the board.
C24_WinnerHasLine ==
    /\ gameState.winner # Null <=> gameState.winningLine # NoLine
    /\ gameState.winner # Null =>
           /\ Len(gameState.winningLine) >= 4
           /\ IsContiguousLine(gameState.winningLine)
           /\ \A i \in DOMAIN gameState.winningLine :
                  gameState.board[gameState.winningLine[i][1]]
                                 [gameState.winningLine[i][2]] = gameState.winner

\* A win is recorded and no drop is pending.
C24_Witness ==
    /\ gameState.winner # Null
    /\ gameState.winningLine # NoLine
    /\ dropTimers = << >>


\* C25: in two-player mode isBotThinking is never true, and the drop timer of a
\* bot move that fires in two-player mode places no token.
C25_BotIdleInTwoPlayer ==
    [][/\ gameState'.gameMode = "two-player" => ~gameState'.isBotThinking
       /\ (/\ gameState.gameMode = "two-player"
           /\ TimerFires
           /\ Head(dropTimers).kind = "bot") =>
              gameState'.board = gameState.board]_vars


\* C26: on every board and at every cell checkWinnerStatic returns true
\* exactly when checkWinner returns a line.
C26_WinTestsAgree ==
    fnOut.done =>
        \A rc \in Cells : fnOut.static[rc] <=> fnOut.lines[rc] # NoLine

\* Both tests have run on a board where they say yes at an inner cell of a
\* line, and no at a token outside every line and at an empty cell.
C26_Witness ==
    /\ fnOut.done
    /\ \E rc \in Cells :
         /\ fnOut.static[rc]
         /\ Len(fnOut.lines[rc]) >= 4
         /\ fnOut.lines[rc][Len(fnOut.lines[rc])][1] < rc[1]
             \/ fnOut.lines[rc][Len(fnOut.lines[rc])][2] < rc[2]
         /\ fnOut.lines[rc][2][1] > rc[1] \/ fnOut.lines[rc][2][2] > rc[2]
    /\ \E rc \in Cells :
         /\ fnBoard[rc[1]][rc[2]] # Null
         /\ ~fnOut.static[rc]
         /\ fnOut.lines[rc] = NoLine
    /\ \E rc \in Cells :
         /\ fnBoard[rc[1]][rc[2]] = Null
         /\ ~fnOut.static[rc]
         /\ fnOut.lines[rc] = NoLine

====
